---- MODULE Spec2Model ----
(***************************************************************************)
(* Model of the camera busyness monitor (src/sensor/main.py): main(), the  *)
(* BusynessMonitor loop, CameraCapture, BusynessEvaluator and              *)
(* CloudflareUploader.  One process; pc is its position in main().         *)
(***************************************************************************)
EXTENDS Integers, Sequences, FiniteSets, TLC

VARIABLES
    once,          \* args.once
    interval,      \* args.interval, seconds
    notes,         \* args.notes
    camera_name,   \* args.camera_name
    monitors,      \* BusynessMonitor objects: monitors[m] is the evaluator object m owns
    evaluators,    \* BusynessEvaluator objects: frames absorbed by each bg_subtractor
    pc,            \* position of the single thread of control inside main()
    cap,           \* CameraCapture.cap: "none", "open" (isOpened), "released"
    config_ok,     \* whether the cap.set calls were honoured by the device
    init_ok,       \* what monitor.initialize() returned
    running,       \* BusynessMonitor.running
    device_ok,     \* the physical device still delivers frames
    clock,         \* datetime.now(), in ticks
    image,         \* frame held by capture_and_analyze, <<>> when none
    data,          \* observation built by capture_and_analyze, <<>> when none
    request,       \* params of the request in flight in requests.post, <<>> when none
    response,      \* what the last post of the current run_once call got back
    cycle_state,   \* the current run_once call: "none", "running", "returned", "aborted"
    last_cycle,    \* what the last run_once call returned: "none", "ok", "failed"
    cycles,        \* run_once calls started
    waits,         \* time.sleep calls completed since the last run_once returned
    captures,      \* capture_image calls
    scorings,      \* calculate_busyness_score calls
    uploads,       \* requests.post calls
    sleeps,        \* time.sleep calls that ran to their end (returned or raised)
    cleanups,      \* cleanup() calls
    releases,      \* cap.release() calls
    stop_cause,    \* why the loop ended: "none", "interrupt", "error"
    raised,        \* exception propagating out of main(): "none", "KeyboardInterrupt"
    exited,        \* the process has exited
    exit_code      \* its exit status, meaningful once exited

vars == <<once, interval, notes, camera_name, monitors, evaluators, pc, cap,
          config_ok, init_ok, running, device_ok, clock, image, data, request,
          response, cycle_state, last_cycle, cycles, waits,
          captures, scorings, uploads, sleeps, cleanups, releases, stop_cause,
          raised, exited, exit_code>>

----------------------------------------------------------------------------
(* Bounds of the model *)

Pixels == 2        \* pixels of a frame (image.shape[0] * image.shape[1])
MaxCount == 2      \* the call counters saturate here
MaxClock == 1      \* the clock saturates here
MaxBg == 1         \* the background model's frame count saturates here

Min(a, b) == IF a < b THEN a ELSE b
Max(a, b) == IF a > b THEN a ELSE b
Bump(n, cap_) == Min(n + 1, cap_)

----------------------------------------------------------------------------
(* Program constants *)

W_motion == 30       \* weights['motion'] = 0.3, in hundredths
W_edges == 20        \* weights['edges'] = 0.2
W_variance == 20     \* weights['variance'] = 0.2
W_texture == 15      \* weights['texture'] = 0.15
W_contours == 15     \* weights['contours'] = 0.15
WeightDen == 100     \* the weights above are hundredths
VarianceCap == 10000 \* color_variance / 10000
TextureCap == 1000   \* laplacian_var / 1000
ContourCap == 20     \* contour_count / 20
ScoreSpan == 9       \* combined_score * 9 + 1
ScoreMin == 1
ScoreMax == 10
FallbackScore == 5   \* return 5, {'error': str(e)}
DefaultInterval == 5

Intervals == {-1, 0, DefaultInterval}

(* --notes and --camera-name: the defaults, and a labelled session. *)
SessionLabels == {<<"", "MacBook Camera">>, <<"lab", "door">>}

----------------------------------------------------------------------------
(* BusynessEvaluator *)

(* What the OpenCV calls measure on a frame.  ok = FALSE is a frame that    *)
(* cv2.cvtColor rejects (wrong channel layout, empty array).                *)
ColorVariances == {0, VarianceCap \div 2, VarianceCap + 1}
LaplacianVars == {0, TextureCap \div 2, TextureCap + 1}
ContourCounts == {0, ContourCap \div 2, ContourCap + 1}

Frames ==
    [ok : {TRUE}, motion_pixels : 0..Pixels, edge_pixels : 0..Pixels,
     color_variance : ColorVariances, laplacian_var : LaplacianVars,
     contour_count : ContourCounts]
    \cup
    [ok : {FALSE}, motion_pixels : {0}, edge_pixels : {0},
     color_variance : {0}, laplacian_var : {0}, contour_count : {0}]

(* The frames the camera of main() delivers in the model: every signal at   *)
(* its lowest or at its highest level, and the malformed frame.             *)
CameraFrames ==
    {f \in Frames :
        /\ f.motion_pixels \in {0, Pixels}
        /\ f.edge_pixels \in {0, Pixels}
        /\ f.color_variance \in {0, VarianceCap + 1}
        /\ f.laplacian_var \in {0, TextureCap + 1}
        /\ f.contour_count \in {0, ContourCap + 1}}

(* combined_score with the colour variance not capped. *)
CombinedNumUncapped(f) ==
      W_motion * f.motion_pixels * VarianceCap
    + W_edges * f.edge_pixels * VarianceCap
    + W_variance * f.color_variance * Pixels
    + W_texture * Min(f.laplacian_var, TextureCap) * (VarianceCap \div TextureCap) * Pixels
    + W_contours * Min(f.contour_count, ContourCap) * (VarianceCap \div ContourCap) * Pixels

(* combined_score with max() in the place of min() on the contours. *)
CombinedNumContoursMax(f) ==
      W_motion * f.motion_pixels * VarianceCap
    + W_edges * f.edge_pixels * VarianceCap
    + W_variance * Min(f.color_variance, VarianceCap) * Pixels
    + W_texture * Min(f.laplacian_var, TextureCap) * (VarianceCap \div TextureCap) * Pixels
    + W_contours * Max(f.contour_count, ContourCap) * (VarianceCap \div ContourCap) * Pixels

(* combined_score with the pixels that are not edges counted as edges. *)
CombinedNumEdgesInverted(f) ==
      W_motion * f.motion_pixels * VarianceCap
    + W_edges * (Pixels - f.edge_pixels) * VarianceCap
    + W_variance * Min(f.color_variance, VarianceCap) * Pixels
    + W_texture * Min(f.laplacian_var, TextureCap) * (VarianceCap \div TextureCap) * Pixels
    + W_contours * Min(f.contour_count, ContourCap) * (VarianceCap \div ContourCap) * Pixels

(* combined_score as the exact fraction CombinedNum(f) / CombinedDen.       *)
CombinedDen == WeightDen * VarianceCap * Pixels

(* 0.3 * motion_ratio + 0.2 * edge_ratio + 0.2 * normalized_variance +      *)
(* 0.15 * normalized_laplacian + 0.15 * normalized_contours                 *)
CombinedNum(f) ==
      W_motion * f.motion_pixels * VarianceCap
    + W_edges * f.edge_pixels * VarianceCap
    + W_variance * Min(f.color_variance, VarianceCap) * Pixels
    + W_texture * Min(f.laplacian_var, TextureCap) * (VarianceCap \div TextureCap) * Pixels
    + W_contours * Min(f.contour_count, ContourCap) * (VarianceCap \div ContourCap) * Pixels

(* round() of Python 3 on the fraction n / d, d > 0, n >= 0: to the nearest *)
(* integer, a tie to the even one.                                          *)
RoundHalfEven(n, d) ==
    LET q == n \div d
        r == n % d
    IN IF 2 * r < d THEN q
       ELSE IF 2 * r > d THEN q + 1
       ELSE IF q % 2 = 0 THEN q ELSE q + 1

(* The score with round() in the place of int(). *)
BusynessScoreRounded(num) ==
    Max(ScoreMin, Min(ScoreMax, RoundHalfEven(num * ScoreSpan, CombinedDen) + 1))

(* The score without its offset and its clamp: int(combined_score * 9). *)
BusynessScoreUnclamped(num) == (num * ScoreSpan) \div CombinedDen

(* max(1, min(10, int(combined_score * 9 + 1))); int() truncates, and the   *)
(* argument is never negative.                                              *)
BusynessScore(num) ==
    Max(ScoreMin, Min(ScoreMax, (num * ScoreSpan + CombinedDen) \div CombinedDen))

(* self.bg_subtractor.apply(image) on evaluator object e: a frame that     *)
(* cvtColor rejected never reaches it.                                      *)
ApplyFrame(ev, e, f) ==
    [ev EXCEPT ![e] = IF f.ok THEN Bump(@, MaxBg) ELSE @]

(* A metadata dict built without combined_raw. *)
CalculateBusynessScoreShort(f) ==
    IF f.ok
    THEN [score |-> BusynessScore(CombinedNum(f)),
          metadata |-> [motion_ratio |-> f.motion_pixels,
                        edge_ratio |-> f.edge_pixels,
                        color_variance |-> f.color_variance,
                        texture_variance |-> f.laplacian_var,
                        contour_count |-> f.contour_count]]
    ELSE [score |-> FallbackScore, metadata |-> [error |-> "cv2.error"]]

CalculateBusynessScore(f) ==
    IF f.ok
    THEN [score |-> BusynessScore(CombinedNum(f)),
          metadata |-> [motion_ratio |-> f.motion_pixels,
                        edge_ratio |-> f.edge_pixels,
                        color_variance |-> f.color_variance,
                        texture_variance |-> f.laplacian_var,
                        contour_count |-> f.contour_count,
                        combined_raw |-> CombinedNum(f)]]
    ELSE [score |-> FallbackScore, metadata |-> [error |-> "cv2.error"]]

----------------------------------------------------------------------------
(* main() *)

Init ==
    /\ once \in BOOLEAN
    /\ interval \in Intervals
    /\ \E l \in SessionLabels : notes = l[1] /\ camera_name = l[2]
    /\ monitors = <<1>>
    /\ evaluators = <<0>>
    /\ pc = "start"
    /\ cap = "none"
    /\ config_ok = FALSE
    /\ init_ok = FALSE
    /\ running = FALSE
    /\ device_ok = TRUE
    /\ clock = 0
    /\ image = <<>>
    /\ data = <<>>
    /\ request = <<>>
    /\ response = <<>>
    /\ cycle_state = "none"
    /\ last_cycle = "none"
    /\ cycles = 0
    /\ waits = 0
    /\ captures = 0
    /\ scorings = 0
    /\ uploads = 0
    /\ sleeps = 0
    /\ cleanups = 0
    /\ releases = 0
    /\ stop_cause = "none"
    /\ raised = "none"
    /\ exited = FALSE
    /\ exit_code = 0

InitOutcomes ==
    IF device_ok
    THEN {"open_raises", "not_opened", "set_raises", "set_ignored", "ok"}
    ELSE {"open_raises", "not_opened"}

(* initialize() whose result main() does not test. *)
InitializeUnchecked ==
    /\ pc = "start"
    /\ \E o \in InitOutcomes :
         /\ cap' = CASE o = "open_raises" -> "none"
                     [] o = "not_opened" -> "unopened"
                     [] OTHER -> "open"
         /\ config_ok' = (o = "ok")
         /\ init_ok' = (o \in {"set_ignored", "ok"})
    /\ pc' = "dispatch"
    /\ UNCHANGED <<once, interval, notes, camera_name, monitors, request, response, running, device_ok, evaluators, clock, image,
                   data, cycle_state, last_cycle, cycles, waits, captures,
                   scorings, uploads, sleeps, cleanups, releases, stop_cause,
                   raised, exited, exit_code>>

(* monitor.initialize() and the test on it in main(). *)
Initialize ==
    /\ pc = "start"
    /\ \E o \in InitOutcomes :
         /\ cap' = CASE o = "open_raises" -> "none"
                     [] o = "not_opened" -> "unopened"
                     [] OTHER -> "open"
         /\ config_ok' = (o = "ok")
         /\ init_ok' = (o \in {"set_ignored", "ok"})
         /\ IF o \in {"set_ignored", "ok"}
            THEN /\ pc' = "dispatch"
                 /\ UNCHANGED <<exited, exit_code>>
            ELSE /\ pc' = "done"
                 /\ exited' = TRUE
                 /\ exit_code' = 1
    /\ UNCHANGED <<once, interval, notes, camera_name, monitors, request, response, running, device_ok, evaluators, clock, image,
                   data, cycle_state, last_cycle, cycles, waits, captures,
                   scorings, uploads, sleeps, cleanups, releases, stop_cause,
                   raised>>

(* Entry of run_once: "Starting monitoring cycle...". *)
EnterCycle ==
    /\ cycle_state' = "running"
    /\ cycles' = Bump(cycles, MaxCount)
    /\ response' = <<>>
    /\ pc' = "capture"

(* main(), args.once: success = monitor.run_once(). *)
StartOnce ==
    /\ pc = "dispatch"
    /\ once
    /\ EnterCycle
    /\ UNCHANGED <<once, interval, notes, camera_name, monitors, request, cap, config_ok, init_ok, running, device_ok,
                   evaluators, clock, image, data, last_cycle, waits, captures,
                   scorings, uploads, sleeps, cleanups, releases, stop_cause,
                   raised, exited, exit_code>>

(* main(), otherwise: monitor.run_continuous() up to the while. *)
StartContinuous ==
    /\ pc = "dispatch"
    /\ ~once
    /\ running' = TRUE
    /\ pc' = "loop"
    /\ UNCHANGED <<once, interval, notes, camera_name, monitors, request, response, cap, config_ok, init_ok, device_ok, evaluators,
                   clock, image, data, cycle_state, last_cycle, cycles, waits,
                   captures, scorings, uploads, sleeps, cleanups, releases,
                   stop_cause, raised, exited, exit_code>>

(* while self.running: self.run_once() *)
LoopTest ==
    /\ pc = "loop"
    /\ IF running
       THEN EnterCycle
       ELSE /\ pc' = "loop_finally"
            /\ UNCHANGED <<cycle_state, cycles, response>>
    /\ UNCHANGED <<once, interval, notes, camera_name, monitors, request, cap, config_ok, init_ok, running, device_ok,
                   evaluators, clock, image, data, last_cycle, waits, captures,
                   scorings, uploads, sleeps, cleanups, releases, stop_cause,
                   raised, exited, exit_code>>

(* A run_once whose caller always goes on to the sleep. *)
ReturnFromCycleToSleep(ok) ==
    /\ cycle_state' = "returned"
    /\ last_cycle' = IF ok THEN "ok" ELSE "failed"
    /\ waits' = 0
    /\ image' = <<>>
    /\ data' = <<>>
    /\ pc' = "sleep"

(* run_once returns ok; the caller goes on: main() to its finally, the loop *)
(* of run_continuous to the sleep.                                          *)
ReturnFromCycle(ok) ==
    /\ cycle_state' = "returned"
    /\ last_cycle' = IF ok THEN "ok" ELSE "failed"
    /\ waits' = 0
    /\ image' = <<>>
    /\ data' = <<>>
    /\ pc' = IF once THEN "main_finally" ELSE "sleep"

ReadOutcomes ==
    IF cap = "open" /\ device_ok
    THEN {"frame", "ret_false", "raises"}
    ELSE IF cap = "open" THEN {"ret_false", "raises"}
    ELSE {"not_initialized"}

(* capture_and_analyze without the test of the image: None goes on to the  *)
(* scoring, where cvtColor rejects it.                                      *)
CaptureUnchecked ==
    /\ pc = "capture"
    /\ captures' = Bump(captures, MaxCount)
    /\ \E o \in ReadOutcomes :
         /\ IF o = "frame"
            THEN \E f \in CameraFrames : image' = <<f>>
            ELSE \E f \in CameraFrames : ~f.ok /\ image' = <<f>>
         /\ pc' = "score"
         /\ UNCHANGED <<data, cycle_state, last_cycle, waits>>
    /\ UNCHANGED <<once, interval, notes, camera_name, monitors, request, response, cap, config_ok, init_ok, running, device_ok,
                   evaluators, clock, cycles, scorings, uploads, sleeps,
                   cleanups, releases, stop_cause, raised, exited, exit_code>>

(* capture_and_analyze up to the test of the image; on None run_once        *)
(* returns False.                                                           *)
Capture ==
    /\ pc = "capture"
    /\ captures' = Bump(captures, MaxCount)
    /\ \E o \in ReadOutcomes :
         IF o = "frame"
         THEN /\ \E f \in CameraFrames : image' = <<f>>
              /\ pc' = "score"
              /\ UNCHANGED <<data, cycle_state, last_cycle, waits>>
         ELSE ReturnFromCycle(FALSE)
    /\ UNCHANGED <<once, interval, notes, camera_name, monitors, request, response, cap, config_ok, init_ok, running, device_ok,
                   evaluators, clock, cycles, scorings, uploads, sleeps,
                   cleanups, releases, stop_cause, raised, exited, exit_code>>

(* A scoring whose exception reaches capture_and_analyze, which returns    *)
(* None for it.                                                             *)
ScoreFailing ==
    /\ pc = "score"
    /\ scorings' = Bump(scorings, MaxCount)
    /\ LET f == image[1]
           r == CalculateBusynessScore(f)
       IN /\ evaluators' = ApplyFrame(evaluators, monitors[1], f)
          /\ IF f.ok
             THEN /\ data' = <<[timestamp |-> clock, score |-> r.score,
                                metadata |-> r.metadata]>>
                  /\ image' = <<>>
                  /\ pc' = "upload"
                  /\ UNCHANGED <<cycle_state, last_cycle, waits>>
             ELSE ReturnFromCycle(FALSE)
    /\ clock' = Bump(clock, MaxClock)
    /\ UNCHANGED <<once, interval, notes, camera_name, monitors, request, response,
                   cap, config_ok, init_ok, running, device_ok, cycles, captures,
                   uploads, sleeps, cleanups, releases, stop_cause, raised,
                   exited, exit_code>>

(* calculate_busyness_score and the rest of capture_and_analyze. *)
Score ==
    /\ pc = "score"
    /\ scorings' = Bump(scorings, MaxCount)
    /\ LET f == image[1]
           r == CalculateBusynessScore(f)
       IN /\ evaluators' = ApplyFrame(evaluators, monitors[1], f)
          /\ data' = <<[timestamp |-> clock, score |-> r.score,
                        metadata |-> r.metadata]>>
    /\ clock' = Bump(clock, MaxClock)
    /\ image' = <<>>
    /\ pc' = "upload"
    /\ UNCHANGED <<once, interval, notes, camera_name, monitors, request, response, cap, config_ok, init_ok, running, device_ok,
                   cycle_state, last_cycle, cycles, waits, captures, uploads,
                   sleeps, cleanups, releases, stop_cause, raised, exited,
                   exit_code>>

HttpOk == 200            \* response.status_code == 200
FailureStatuses == {500} \* any status the else branch takes
PostTimeout == 30        \* timeout=30

(* What requests.post does: it raises (connection error, or no answer      *)
(* within PostTimeout seconds), or it returns a status code and a body.    *)
Responses ==
    [raised : {TRUE}, waited : {0, PostTimeout}, status : {0}, body : {"none"}]
    \cup
    [raised : {FALSE}, waited : {0}, status : {HttpOk} \cup FailureStatuses,
     body : {"success_true", "success_false", "no_success_field", "not_json"}]

(* A test of the status code alone. *)
UploadSucceededByStatus(resp) ==
    /\ ~resp.raised
    /\ resp.status = HttpOk

(* response.status_code == 200 and result.get('success', False); a body    *)
(* that is not JSON makes response.json() raise into the except clause.    *)
UploadSucceeded(resp) ==
    /\ ~resp.raised
    /\ resp.status = HttpOk
    /\ resp.body = "success_true"

(* metadata.get(key, 0) *)
Get(md, key) == IF key \in DOMAIN md THEN md[key] ELSE 0

(* The keys of the metadata dict, in insertion order. *)
MetadataKeys ==
    <<"motion_ratio", "edge_ratio", "color_variance", "texture_variance",
      "contour_count", "combined_raw", "error">>

(* json.dumps(metadata): the key/value pairs the dict holds, in order. *)
JsonDumps(md) ==
    LET F[i \in 0..Len(MetadataKeys)] ==
          IF i = 0 THEN <<>>
          ELSE IF MetadataKeys[i] \in DOMAIN md
               THEN Append(F[i - 1], <<MetadataKeys[i], md[MetadataKeys[i]]>>)
               ELSE F[i - 1]
    IN F[Len(MetadataKeys)]

(* The columns of INSERT INTO busyness_data (...), one ? for each. *)
InsertColumns ==
    <<"timestamp", "score", "motion_ratio", "edge_ratio", "color_variance",
      "texture_variance", "contour_count", "combined_raw", "metadata", "notes",
      "camera_name">>

(* params with notes and camera_name in the other order. *)
UploadParamsSwapped(score, metadata, timestamp, notes_, camera_name_) ==
    << [from |-> "timestamp", value |-> timestamp],
       [from |-> "score", value |-> score],
       [from |-> "motion_ratio", value |-> Get(metadata, "motion_ratio")],
       [from |-> "edge_ratio", value |-> Get(metadata, "edge_ratio")],
       [from |-> "color_variance", value |-> Get(metadata, "color_variance")],
       [from |-> "texture_variance", value |-> Get(metadata, "texture_variance")],
       [from |-> "contour_count", value |-> Get(metadata, "contour_count")],
       [from |-> "combined_raw", value |-> Get(metadata, "combined_raw")],
       [from |-> "metadata", value |-> JsonDumps(metadata)],
       [from |-> "camera_name", value |-> camera_name_],
       [from |-> "notes", value |-> notes_] >>

(* params of upload_busyness_data: each entry is the value bound, with the *)
(* name of what it was taken from.                                         *)
UploadParams(score, metadata, timestamp, notes_, camera_name_) ==
    << [from |-> "timestamp", value |-> timestamp],
       [from |-> "score", value |-> score],
       [from |-> "motion_ratio", value |-> Get(metadata, "motion_ratio")],
       [from |-> "edge_ratio", value |-> Get(metadata, "edge_ratio")],
       [from |-> "color_variance", value |-> Get(metadata, "color_variance")],
       [from |-> "texture_variance", value |-> Get(metadata, "texture_variance")],
       [from |-> "contour_count", value |-> Get(metadata, "contour_count")],
       [from |-> "combined_raw", value |-> Get(metadata, "combined_raw")],
       [from |-> "metadata", value |-> JsonDumps(metadata)],
       [from |-> "notes", value |-> notes_],
       [from |-> "camera_name", value |-> camera_name_] >>

(* upload_data: the call of upload_busyness_data on the observation. *)
UploadData(d) ==
    UploadParams(d.score, d.metadata, d.timestamp, notes, camera_name)

(* An upload handed to a background worker: run_once returns at once. *)
UploadInBackground ==
    /\ pc = "upload"
    /\ uploads' = Bump(uploads, MaxCount)
    /\ request' = <<UploadData(data[1])>>
    /\ ReturnFromCycle(TRUE)
    /\ UNCHANGED <<once, interval, notes, camera_name, monitors, response, cap,
                   config_ok, init_ok, running, device_ok, evaluators, clock,
                   cycles, captures, scorings, sleeps, cleanups, releases,
                   stop_cause, raised, exited, exit_code>>

(* upload_data / upload_busyness_data up to requests.post, which blocks     *)
(* until the endpoint answers, the connection fails or the timeout ends.    *)
Upload ==
    /\ pc = "upload"
    /\ uploads' = Bump(uploads, MaxCount)
    /\ request' = <<UploadData(data[1])>>
    /\ pc' = "posting"
    /\ UNCHANGED <<once, interval, notes, camera_name, monitors, response, cap,
                   config_ok, init_ok, running, device_ok, evaluators, clock,
                   image, data, cycle_state, last_cycle, cycles, waits,
                   captures, scorings, sleeps, cleanups, releases, stop_cause,
                   raised, exited, exit_code>>

(* A post whose network error is not caught anywhere in the cycle. *)
RespondRaising ==
    /\ pc = "posting"
    /\ request' = <<>>
    /\ \E resp \in Responses :
         /\ response' = <<resp>>
         /\ IF resp.raised /\ ~once
            THEN /\ stop_cause' = "error"
                 /\ pc' = "loop_finally"
                 /\ cycle_state' = "aborted"
                 /\ image' = <<>>
                 /\ data' = <<>>
                 /\ UNCHANGED <<last_cycle, waits>>
            ELSE /\ ReturnFromCycle(UploadSucceeded(resp))
                 /\ UNCHANGED stop_cause
    /\ UNCHANGED <<once, interval, notes, camera_name, monitors, cap, config_ok,
                   init_ok, running, device_ok, evaluators, clock, cycles,
                   captures, scorings, uploads, sleeps, cleanups, releases,
                   raised, exited, exit_code>>

(* An upload that is tried again when it failed. *)
RespondRetrying ==
    /\ pc = "posting"
    /\ request' = <<>>
    /\ \E resp \in Responses :
         /\ response' = <<resp>>
         /\ IF UploadSucceeded(resp)
            THEN ReturnFromCycle(TRUE)
            ELSE /\ pc' = "upload"
                 /\ UNCHANGED <<cycle_state, last_cycle, waits, image, data>>
    /\ UNCHANGED <<once, interval, notes, camera_name, monitors, cap, config_ok,
                   init_ok, running, device_ok, evaluators, clock, cycles,
                   captures, scorings, uploads, sleeps, cleanups, releases,
                   stop_cause, raised, exited, exit_code>>

(* The outcome of requests.post, the tests on it in upload_busyness_data    *)
(* and the rest of run_once.                                                *)
Respond ==
    /\ pc = "posting"
    /\ request' = <<>>
    /\ \E resp \in Responses :
         /\ response' = <<resp>>
         /\ ReturnFromCycle(UploadSucceeded(resp))
    /\ UNCHANGED <<once, interval, notes, camera_name, monitors, cap, config_ok,
                   init_ok, running, device_ok, evaluators, clock, cycles,
                   captures, scorings, uploads, sleeps, cleanups, releases,
                   stop_cause, raised, exited, exit_code>>

(* A loop that sleeps twice per cycle. *)
SleepTwice ==
    /\ pc = "sleep"
    /\ sleeps' = Bump(sleeps, MaxCount)
    /\ IF interval < 0
       THEN /\ stop_cause' = "error"
            /\ pc' = "loop_finally"
            /\ UNCHANGED waits
       ELSE /\ waits' = waits + 1
            /\ pc' = IF waits = 0 THEN "sleep" ELSE "loop"
            /\ UNCHANGED stop_cause
    /\ UNCHANGED <<once, interval, notes, camera_name, monitors, request, response, cap, config_ok, init_ok, running, device_ok,
                   evaluators, clock, image, data, cycle_state, last_cycle,
                   cycles, captures, scorings, uploads, cleanups, releases,
                   raised, exited, exit_code>>

(* time.sleep(self.interval); a negative interval raises ValueError, which  *)
(* the except Exception clause of run_continuous logs.                      *)
Sleep ==
    /\ pc = "sleep"
    /\ sleeps' = Bump(sleeps, MaxCount)
    /\ IF interval < 0
       THEN /\ stop_cause' = "error"
            /\ pc' = "loop_finally"
            /\ UNCHANGED waits
       ELSE /\ waits' = waits + 1
            /\ pc' = "loop"
            /\ UNCHANGED stop_cause
    /\ UNCHANGED <<once, interval, notes, camera_name, monitors, request, response, cap, config_ok, init_ok, running, device_ok,
                   evaluators, clock, image, data, cycle_state, last_cycle,
                   cycles, captures, scorings, uploads, cleanups, releases,
                   raised, exited, exit_code>>

(* A stop request that only sets a note and lets the loop go on. *)
InterruptedIgnored ==
    IF once
    THEN /\ raised' = "KeyboardInterrupt"
         /\ pc' = "main_finally"
         /\ UNCHANGED stop_cause
    ELSE /\ stop_cause' = "interrupt"
         /\ pc' = pc
         /\ UNCHANGED raised

(* Where a KeyboardInterrupt lands: run_continuous catches it; in run-once  *)
(* mode nothing does and it leaves main() through the finally.              *)
Interrupted ==
    IF once
    THEN /\ raised' = "KeyboardInterrupt"
         /\ pc' = "main_finally"
         /\ UNCHANGED stop_cause
    ELSE /\ stop_cause' = "interrupt"
         /\ pc' = "loop_finally"
         /\ UNCHANGED raised

(* KeyboardInterrupt inside run_once: it is not an Exception, so no except  *)
(* clause of the cycle catches it.                                          *)
InterruptCycle ==
    /\ pc \in {"capture", "score", "upload", "posting"}
    /\ Interrupted
    /\ cycle_state' = "aborted"
    /\ image' = <<>>
    /\ data' = <<>>
    /\ request' = <<>>
    /\ UNCHANGED <<once, interval, notes, camera_name, monitors, response, cap, config_ok, init_ok, running, device_ok,
                   evaluators, clock, last_cycle, cycles, waits, captures,
                   scorings, uploads, sleeps, cleanups, releases, exited,
                   exit_code>>

(* KeyboardInterrupt in time.sleep or at the while test. *)
InterruptIdle ==
    /\ pc \in {"sleep", "loop"}
    /\ Interrupted
    /\ UNCHANGED <<once, interval, notes, camera_name, monitors, request, response, cap, config_ok, init_ok, running, device_ok,
                   evaluators, clock, image, data, cycle_state, last_cycle,
                   cycles, waits, captures, scorings, uploads, sleeps,
                   cleanups, releases, exited, exit_code>>

(* A cleanup that leaves the camera open. *)
CleanupKeepsCamera ==
    /\ running' = FALSE
    /\ cleanups' = Bump(cleanups, MaxCount)
    /\ UNCHANGED <<cap, releases>>

(* cleanup() with release_camera(). *)
Cleanup ==
    /\ running' = FALSE
    /\ cleanups' = Bump(cleanups, MaxCount)
    /\ IF cap # "none"
       THEN /\ cap' = "released"
            /\ releases' = Bump(releases, MaxCount)
       ELSE UNCHANGED <<cap, releases>>

(* finally: self.cleanup() of run_continuous, then main() has return 0. *)
LoopFinally ==
    /\ pc = "loop_finally"
    /\ Cleanup
    /\ pc' = "main_finally"
    /\ UNCHANGED <<once, interval, notes, camera_name, monitors, request, response, config_ok, init_ok, device_ok, evaluators,
                   clock, image, data, cycle_state, last_cycle, cycles, waits,
                   captures, scorings, uploads, sleeps, stop_cause, raised,
                   exited, exit_code>>

SigIntStatus == 128 + 2

(* What main() hands to exit(). *)
MainResult ==
    IF raised # "none" THEN SigIntStatus
    ELSE IF once THEN (IF last_cycle = "ok" THEN 0 ELSE 1)
    ELSE 0

(* finally: monitor.cleanup() of main(), then exit(main()). *)
MainFinally ==
    /\ pc = "main_finally"
    /\ Cleanup
    /\ pc' = "done"
    /\ exited' = TRUE
    /\ exit_code' = MainResult
    /\ UNCHANGED <<once, interval, notes, camera_name, monitors, request, response, config_ok, init_ok, device_ok, evaluators,
                   clock, image, data, cycle_state, last_cycle, cycles, waits,
                   captures, scorings, uploads, sleeps, stop_cause, raised>>

(* The camera is unplugged and stays so. *)
DeviceLost ==
    /\ device_ok
    /\ pc # "done"
    /\ device_ok' = FALSE
    /\ UNCHANGED <<once, interval, notes, camera_name, monitors, request, response, pc, cap, config_ok, init_ok, running,
                   evaluators, clock, image, data, cycle_state, last_cycle,
                   cycles, waits, captures, scorings, uploads, sleeps,
                   cleanups, releases, stop_cause, raised, exited, exit_code>>

Step ==
    \/ Initialize
    \/ StartOnce
    \/ StartContinuous
    \/ LoopTest
    \/ Capture
    \/ Score
    \/ Upload
    \/ Respond
    \/ Sleep
    \/ LoopFinally
    \/ MainFinally

Next ==
    \/ Initialize
    \/ StartOnce
    \/ StartContinuous
    \/ LoopTest
    \/ Capture
    \/ Score
    \/ Upload
    \/ Respond
    \/ Sleep
    \/ LoopFinally
    \/ MainFinally
    \/ InterruptCycle
    \/ InterruptIdle
    \/ DeviceLost

Spec == Init /\ [][Next]_vars

(* The thread of control keeps running while it has a step to take; no      *)
(* interrupt and no loss of the device is ever bound to happen.             *)
FairSpec == Spec /\ WF_vars(Step)

----------------------------------------------------------------------------
(* The monitor object after cleanup(): its owner calls run_once() again.    *)
(* main() never does; the call is taken as one step, from the capture       *)
(* attempt to the return.                                                   *)

LateRunOnce ==
    /\ pc = "done"
    /\ cleanups >= 1
    /\ cycles' = Bump(cycles, MaxCount)
    /\ captures' = Bump(captures, MaxCount)
    /\ cycle_state' = "returned"
    /\ \E o \in ReadOutcomes :
         IF o = "frame"
         THEN \E f \in CameraFrames, resp \in Responses :
                /\ evaluators' = ApplyFrame(evaluators, monitors[1], f)
                /\ scorings' = Bump(scorings, MaxCount)
                /\ clock' = Bump(clock, MaxClock)
                /\ uploads' = Bump(uploads, MaxCount)
                /\ response' = <<resp>>
                /\ last_cycle' = IF UploadSucceeded(resp) THEN "ok" ELSE "failed"
         ELSE /\ last_cycle' = "failed"
              /\ response' = <<>>
              /\ UNCHANGED <<evaluators, scorings, clock, uploads>>
    /\ UNCHANGED <<once, interval, notes, camera_name, monitors, request, pc,
                   cap, config_ok, init_ok, running, device_ok, image, data,
                   waits, sleeps, cleanups, releases, stop_cause, raised,
                   exited, exit_code>>

StoppedNext ==
    \/ Next
    \/ LateRunOnce

StoppedSpec == Init /\ [][StoppedNext]_vars

----------------------------------------------------------------------------
(* Several monitor sessions in one process: the classes of main.py used as *)
(* a library, each BusynessMonitor built by its constructor and fed frames. *)

MaxMonitors == 3

(* One evaluator object, made at module level, for every monitor. *)
SharedEvaluator(n) == 1

(* The evaluator object BusynessMonitor.__init__ builds for the n-th        *)
(* monitor: self.evaluator = BusynessEvaluator(), a new object each time.   *)
EvaluatorOf(n) == n

SessionsInit ==
    /\ once = FALSE
    /\ interval = DefaultInterval
    /\ \E l \in SessionLabels : notes = l[1] /\ camera_name = l[2]
    /\ monitors = <<>>
    /\ evaluators = <<>>
    /\ pc = "start"
    /\ cap = "none"
    /\ config_ok = FALSE
    /\ init_ok = FALSE
    /\ running = FALSE
    /\ device_ok = TRUE
    /\ clock = 0
    /\ image = <<>>
    /\ data = <<>>
    /\ request = <<>>
    /\ response = <<>>
    /\ cycle_state = "none"
    /\ last_cycle = "none"
    /\ cycles = 0
    /\ waits = 0
    /\ captures = 0
    /\ scorings = 0
    /\ uploads = 0
    /\ sleeps = 0
    /\ cleanups = 0
    /\ releases = 0
    /\ stop_cause = "none"
    /\ raised = "none"
    /\ exited = FALSE
    /\ exit_code = 0

(* BusynessMonitor.__init__ with BusynessEvaluator.__init__: the evaluator  *)
(* gets its own background subtractor, with no frame absorbed.              *)
NewMonitor ==
    /\ Len(monitors) < MaxMonitors
    /\ LET e == EvaluatorOf(Len(monitors) + 1)
       IN /\ monitors' = Append(monitors, e)
          /\ evaluators' = IF e \in DOMAIN evaluators
                           THEN evaluators
                           ELSE Append(evaluators, 0)
    /\ UNCHANGED <<once, interval, notes, camera_name, pc, cap, config_ok,
                   init_ok, running, device_ok, clock, image, data, request,
                   response, cycle_state, last_cycle, cycles, waits, captures,
                   scorings, uploads, sleeps, cleanups, releases, stop_cause,
                   raised, exited, exit_code>>

(* Monitor m scores frame f: self.evaluator.calculate_busyness_score(image) *)
(* and the observation capture_and_analyze builds from it.                  *)
ScoreIn ==
    /\ \E m \in DOMAIN monitors, f \in CameraFrames :
         LET r == CalculateBusynessScore(f)
         IN /\ evaluators' = ApplyFrame(evaluators, monitors[m], f)
            /\ data' = <<[timestamp |-> clock, score |-> r.score,
                          metadata |-> r.metadata]>>
    /\ UNCHANGED <<once, interval, notes, camera_name, monitors, pc, cap,
                   config_ok, init_ok, running, device_ok, clock, image,
                   request, response, cycle_state, last_cycle, cycles, waits,
                   captures, scorings, uploads, sleeps, cleanups, releases,
                   stop_cause, raised, exited, exit_code>>

SessionsNext ==
    \/ NewMonitor
    \/ ScoreIn

SessionsSpec == SessionsInit /\ [][SessionsNext]_vars

----------------------------------------------------------------------------
(* The scoring step alone, on every frame of Frames: main() in run-once     *)
(* mode at the point where capture_image has returned the frame.            *)

EvalInit ==
    /\ once = TRUE
    /\ interval = DefaultInterval
    /\ notes = ""
    /\ camera_name = "MacBook Camera"
    /\ monitors = <<1>>
    /\ evaluators = <<0>>
    /\ pc = "score"
    /\ cap = "open"
    /\ config_ok = TRUE
    /\ init_ok = TRUE
    /\ running = FALSE
    /\ device_ok = TRUE
    /\ clock = 0
    /\ \E f \in Frames : image = <<f>>
    /\ data = <<>>
    /\ request = <<>>
    /\ response = <<>>
    /\ cycle_state = "running"
    /\ last_cycle = "none"
    /\ cycles = 1
    /\ waits = 0
    /\ captures = 1
    /\ scorings = 0
    /\ uploads = 0
    /\ sleeps = 0
    /\ cleanups = 0
    /\ releases = 0
    /\ stop_cause = "none"
    /\ raised = "none"
    /\ exited = FALSE
    /\ exit_code = 0

EvalNext == Score

EvalSpec == EvalInit /\ [][EvalNext]_vars

----------------------------------------------------------------------------
(* The evaluator on two frames in a row, the second being the first with    *)
(* one signal raised; both observations are kept.                           *)

Signals ==
    {"motion_pixels", "edge_pixels", "color_variance", "laplacian_var",
     "contour_count"}

(* The levels of a signal: those of Frames, the cap itself and twice the cap. *)
Levels(k) ==
    CASE k = "motion_pixels" -> 0..Pixels
      [] k = "edge_pixels" -> 0..Pixels
      [] k = "color_variance" -> ColorVariances \cup {VarianceCap, 2 * VarianceCap}
      [] k = "laplacian_var" -> LaplacianVars \cup {TextureCap, 2 * TextureCap}
      [] k = "contour_count" -> ContourCounts \cup {ContourCap, 2 * ContourCap}

MonoInit ==
    /\ once = TRUE
    /\ interval = DefaultInterval
    /\ notes = ""
    /\ camera_name = "MacBook Camera"
    /\ monitors = <<1>>
    /\ evaluators = <<0>>
    /\ pc = "score"
    /\ cap = "open"
    /\ config_ok = TRUE
    /\ init_ok = TRUE
    /\ running = FALSE
    /\ device_ok = TRUE
    /\ clock = 0
    /\ \E m \in Levels("motion_pixels"), e \in Levels("edge_pixels"),
          v \in Levels("color_variance"), l \in Levels("laplacian_var"),
          c \in Levels("contour_count") :
         LET f == [ok |-> TRUE, motion_pixels |-> m, edge_pixels |-> e,
                   color_variance |-> v, laplacian_var |-> l,
                   contour_count |-> c]
         IN \E k \in Signals : \E x \in Levels(k) :
              /\ x > f[k]
              /\ image = <<f, [f EXCEPT ![k] = x]>>
    /\ data = <<>>
    /\ request = <<>>
    /\ response = <<>>
    /\ cycle_state = "running"
    /\ last_cycle = "none"
    /\ cycles = 1
    /\ waits = 0
    /\ captures = 1
    /\ scorings = 0
    /\ uploads = 0
    /\ sleeps = 0
    /\ cleanups = 0
    /\ releases = 0
    /\ stop_cause = "none"
    /\ raised = "none"
    /\ exited = FALSE
    /\ exit_code = 0

(* self.evaluator.calculate_busyness_score(image) on the next frame. *)
ScoreNext ==
    /\ pc = "score"
    /\ image # <<>>
    /\ scorings' = Bump(scorings, MaxCount)
    /\ LET f == Head(image)
           r == CalculateBusynessScore(f)
       IN /\ evaluators' = ApplyFrame(evaluators, monitors[1], f)
          /\ data' = Append(data, [timestamp |-> clock, score |-> r.score,
                                   metadata |-> r.metadata])
    /\ clock' = Bump(clock, MaxClock)
    /\ image' = Tail(image)
    /\ UNCHANGED <<once, interval, notes, camera_name, monitors, request,
                   response, pc, cap, config_ok, init_ok, running, device_ok,
                   cycle_state, last_cycle, cycles, waits, captures, uploads,
                   sleeps, cleanups, releases, stop_cause, raised, exited,
                   exit_code>>

MonoNext == ScoreNext

MonoSpec == MonoInit /\ [][MonoNext]_vars

(* The evaluator state of main()'s monitor. *)
bg_frames == evaluators[monitors[1]]

(* The states of the monitor loop. *)
SessionState ==
    CASE pc = "start" -> "Uninitialized"
      [] pc = "done" /\ ~init_ok -> "Uninitialized"
      [] pc = "dispatch" -> "Ready"
      [] pc = "loop" /\ cycles = 0 -> "Ready"
      [] pc \in {"capture", "score", "upload", "posting"} -> "Cycling"
      [] pc \in {"sleep", "loop"} -> "Idle"
      [] OTHER -> "Stopped"

TypeOK ==
    /\ pc \in {"start", "dispatch", "loop", "capture", "score", "upload",
               "posting", "sleep", "loop_finally", "main_finally", "done"}
    /\ cap \in {"none", "unopened", "open", "released"}
    /\ cycle_state \in {"none", "running", "returned", "aborted"}
    /\ last_cycle \in {"none", "ok", "failed"}
    /\ Len(image) <= 1 /\ Len(data) <= 1
    /\ Len(request) <= 1 /\ Len(response) <= 1
    /\ (request # <<>>) = (pc = "posting")
    /\ response \in Seq(Responses)
    /\ waits \in 0..1

----------------------------------------------------------------------------
(* Properties *)

CycleSteps == {"capture", "score", "upload", "posting"}
StopSteps == {"loop_finally", "main_finally", "done"}

(* CHECK (score >= 1 AND score <= 10) of table busyness_data. *)
ScoreCheck(s) == s >= 1 /\ s <= 10

(* C1: in continuous mode a capture failure, a degraded scoring or a failed *)
(* upload never ends the loop: unless an interrupt lands, every step of a   *)
(* cycle goes on to the next step of the cycle or to the sleep, with the    *)
(* loop still running and nothing raised; and after a failed cycle a later  *)
(* cycle starts unless the loop is stopped.                                 *)
C1_RecoverableErrorsAbsorbed ==
    /\ [][(~once /\ pc \in CycleSteps /\ stop_cause' # "interrupt")
            => /\ pc' \in {pc, "score", "upload", "posting", "sleep"}
               /\ running'
               /\ stop_cause' = "none"
               /\ raised' = "none"
               /\ ~exited']_vars
    /\ (~once /\ pc = "sleep" /\ last_cycle = "failed")
          ~> (cycle_state = "running" \/ stop_cause # "none")

C1_Witness ==
    /\ ~once
    /\ last_cycle = "failed"
    /\ pc = "capture"
    /\ uploads >= 1
    /\ stop_cause = "none"

(* C2: in continuous mode every return of run_once, whatever it returned,   *)
(* leads to the sleep; a sleep that returns leads to the while test; a      *)
(* cycle that is not the first starts with exactly one completed sleep      *)
(* since the previous cycle; and after a cycle the next one starts unless    *)
(* the loop is stopped.                                                     *)
C2_OneWaitBetweenCycles ==
    /\ [][~once =>
            /\ (cycle_state = "running" /\ cycle_state' = "returned")
                 => (pc' = "sleep" /\ waits' = 0)
            /\ (pc = "sleep" /\ pc' # "sleep" /\ stop_cause' = "none")
                 => (pc' = "loop" /\ waits' = 1)
            /\ (cycle_state = "returned" /\ cycle_state' = "running")
                 => waits = 1]_vars
    /\ (~once /\ cycle_state = "returned" /\ pc = "sleep")
          ~> (cycle_state = "running" \/ stop_cause # "none")

C2_Witness ==
    /\ ~once
    /\ pc = "capture"
    /\ cycles >= 2
    /\ last_cycle = "failed"
    /\ waits = 1
    /\ uploads >= 1

(* C3: a session that reached Ready and has stopped ran cleanup, and        *)
(* released the frame source, exactly once.                                 *)
C3_CleanupExactlyOnce ==
    (pc = "done" /\ init_ok) => (cleanups = 1 /\ releases = 1)

(* C4: an error that ends the continuous loop is followed by cleanup and a  *)
(* non-zero exit status.                                                    *)
C4_FatalErrorNonZeroExit ==
    (exited /\ stop_cause = "error") => (cleanups >= 1 /\ exit_code # 0)

(* C5: in the continuous loop a cycle whose capture has been done goes on  *)
(* through scoring and upload to the return of run_once; no step takes it   *)
(* from inside the cycle to the stop.                                       *)
C5_NoStopInsideCycle ==
    [][(~once /\ pc \in {"score", "upload", "posting"})
         => pc' \in {pc, "upload", "posting", "sleep"}]_vars

(* C6: once the device is gone for good, a continuous session that reached  *)
(* Ready eventually stops and has released the frame source.                *)
C6_DeviceGoneLeadsToStopped ==
    (~once /\ init_ok /\ ~device_ok) ~> (pc = "done" /\ cap = "released")

(* C7: every observation the evaluator produced, from a well-formed or a    *)
(* malformed frame, carries a score that passes the table's CHECK           *)
(* constraint, in particular the one handed to the upload.                  *)
C7_ScoreInRange ==
    \A i \in 1..Len(data) : ScoreCheck(data[i].score)

C7_Witness ==
    /\ pc = "upload"
    /\ "error" \in DOMAIN data[1].metadata
    /\ data[1].score = FallbackScore

(* C8: when the frame source cannot be opened, no cycle, capture, scoring   *)
(* or upload ever runs and main exits with status 1.                        *)
C8_InitFailureIsFatal ==
    (pc # "start" /\ ~init_ok)
        => /\ pc = "done"
           /\ exited
           /\ exit_code = 1
           /\ cycles = 0
           /\ captures = 0
           /\ scorings = 0
           /\ uploads = 0

C8_Witness ==
    /\ pc = "done"
    /\ ~init_ok
    /\ cap = "unopened"

(* C9: in run-once mode there is one cycle with at most one capture, one    *)
(* scoring and one upload, never a sleep nor the loop, and the run ends     *)
(* with cleanup done once; unless interrupted, the capture was attempted.   *)
C9_RunOnceSingleCycle ==
    once =>
        /\ sleeps = 0
        /\ pc \notin {"sleep", "loop", "loop_finally"}
        /\ cycles <= 1 /\ captures <= 1 /\ scorings <= 1 /\ uploads <= 1
        /\ (cycle_state = "returned" => pc \in {"main_finally", "done"})
        /\ (pc = "done" /\ init_ok)
             => /\ cycles = 1
                /\ cleanups = 1
                /\ cap = "released"
                /\ (raised = "none" => captures = 1)

C9_Witness ==
    /\ once
    /\ pc = "done"
    /\ init_ok
    /\ last_cycle = "ok"
    /\ uploads = 1

(* The loop was stopped by an interrupt that landed in the sleep. *)
StoppedDuringSleep ==
    /\ stop_cause = "interrupt"
    /\ cycle_state = "returned"
    /\ waits = 0

(* C10: an interrupt that lands in the sleep ends it there and goes to      *)
(* cleanup; no cycle, capture, scoring or upload happens afterwards.        *)
C10_InterruptCutsSleep ==
    /\ [][(pc = "sleep" /\ stop_cause = "none" /\ stop_cause' = "interrupt")
            => (pc' = "loop_finally" /\ waits' = 0 /\ sleeps' = sleeps)]_vars
    /\ [][StoppedDuringSleep
            => /\ pc' \in StopSteps
               /\ cycles' = cycles
               /\ captures' = captures
               /\ scorings' = scorings
               /\ uploads' = uploads
               /\ sleeps' = sleeps]_vars

C10_Witness ==
    /\ StoppedDuringSleep
    /\ pc = "done"
    /\ cleanups >= 1
    /\ cap = "released"

(* C11: a run that has ended has not left the capture device open.          *)
C11_OpenedDeviceReleased ==
    pc = "done" => cap # "open"

(* C12: the upload is reported successful exactly when the post did not     *)
(* raise, the status is 200 and the body says success: true; in every other *)
(* case run_once returns, with the cycle failed and nothing raised.         *)
C12_UploadSuccessIffOk ==
    [][(pc = "posting" /\ response' # <<>>)
         => LET r == response'[1]
            IN /\ cycle_state' = "returned"
               /\ (last_cycle' = "ok")
                    <=> (~r.raised /\ r.status = 200 /\ r.body = "success_true")
               /\ last_cycle' \in {"ok", "failed"}
               /\ stop_cause' = "none"
               /\ raised' = "none"]_vars

C12_Witness ==
    /\ pc = "sleep"
    /\ Len(response) = 1
    /\ response[1].status = 200
    /\ response[1].body = "success_false"
    /\ last_cycle = "failed"

(* C13: a post is made only when the current run_once call has not had an   *)
(* answer to a post yet, and it sends the observation of this cycle; the    *)
(* answer ends the cycle with the observation dropped, and a cycle starts   *)
(* with no observation, request or answer of an earlier one.                *)
C13_NoRetry ==
    /\ [][(pc' = "posting" /\ pc # "posting")
            => /\ response = <<>>
               /\ request = <<>>
               /\ request' = <<UploadData(data[1])>>]_vars
    /\ [][(pc = "posting" /\ pc' # "posting")
            => /\ pc' \notin {"upload", "posting"}
               /\ data' = <<>>
               /\ request' = <<>>]_vars
    /\ [][(cycle_state' = "running" /\ pc' = "capture" /\ pc # "capture")
            => /\ data' = <<>>
               /\ request' = <<>>
               /\ response' = <<>>]_vars

C13_Witness ==
    /\ ~once
    /\ pc = "posting"
    /\ last_cycle = "failed"
    /\ uploads >= 2
    /\ response = <<>>

Placeholders == 11     \* VALUES (?, ?, ?, ?, ?, ?, ?, ?, ?, ?, ?)

(* C14: the params of every request in flight are eleven, taken in the      *)
(* order of the INSERT's columns from the observation of the cycle, the     *)
(* notes and the camera name; a field the metadata lacks is bound as 0.     *)
C14_ElevenOrderedParams ==
    \A i \in 1..Len(request) :
        LET ps == request[i]
            d == data[1]
        IN /\ Len(ps) = Placeholders
           /\ Len(InsertColumns) = Placeholders
           /\ \A k \in 1..Len(ps) : ps[k].from = InsertColumns[k]
           /\ ps[1].value = d.timestamp
           /\ ps[2].value = d.score
           /\ \A k \in 3..8 :
                ps[k].value = IF InsertColumns[k] \in DOMAIN d.metadata
                              THEN d.metadata[InsertColumns[k]] ELSE 0
           /\ ps[10].value = notes
           /\ ps[11].value = camera_name

C14_Witness ==
    /\ pc = "posting"
    /\ DOMAIN data[1].metadata = {"error"}
    /\ request[1][3].value = 0
    /\ request[1][10].value = "lab"

(* C15 as stated: the score is clamp(round(c * 9) + 1, 1, 10).              *)
C15_ScoreIsRounded ==
    \A i \in 1..Len(data) :
        "combined_raw" \in DOMAIN data[i].metadata
            => data[i].score =
                 Max(1, Min(10, RoundHalfEven(data[i].metadata.combined_raw * 9,
                                              CombinedDen) + 1))

(* C15 as amended: the score is clamp(floor(c * 9) + 1, 1, 10).             *)
C15_ScoreIsTruncated ==
    \A i \in 1..Len(data) :
        "combined_raw" \in DOMAIN data[i].metadata
            => data[i].score =
                 Max(1, Min(10, ((data[i].metadata.combined_raw * 9)
                                    \div CombinedDen) + 1))

C15_Witness ==
    /\ pc = "upload"
    /\ "combined_raw" \in DOMAIN data[1].metadata
    /\ data[1].metadata.combined_raw * 10 = 3 * CombinedDen
    /\ data[1].score = 3

(* C16: the five weights add up to one, and the combined value of every     *)
(* scored frame lies between 0 and 1.                                       *)
C16_CombinedInUnitInterval ==
    /\ W_motion + W_edges + W_variance + W_texture + W_contours = WeightDen
    /\ \A i \in 1..Len(data) :
         "combined_raw" \in DOMAIN data[i].metadata
            => /\ data[i].metadata.combined_raw >= 0
               /\ data[i].metadata.combined_raw <= CombinedDen

C16_Witness ==
    /\ pc = "upload"
    /\ "combined_raw" \in DOMAIN data[1].metadata
    /\ data[1].metadata.combined_raw = CombinedDen
    /\ data[1].metadata.color_variance > VarianceCap

(* C17: scoring a malformed frame does not fail the cycle: the step goes on *)
(* to the upload with score 5 and an error field, and that record is what   *)
(* is posted.                                                               *)
C17_DegradedIsUploaded ==
    /\ [][(pc = "score" /\ pc' # "score" /\ cycle_state' # "aborted"
             /\ ~image[1].ok)
            => /\ pc' = "upload"
               /\ cycle_state' = "running"
               /\ Len(data') = 1
               /\ data'[1].score = FallbackScore
               /\ "error" \in DOMAIN data'[1].metadata]_vars
    /\ [][(pc = "upload" /\ pc' = "posting"
             /\ "error" \in DOMAIN data[1].metadata)
            => request'[1][2].value = FallbackScore]_vars

C17_Witness ==
    /\ pc = "posting"
    /\ "error" \in DOMAIN data[1].metadata
    /\ request[1][2].value = FallbackScore
    /\ uploads = 1

RawKeys ==
    {"motion_ratio", "edge_ratio", "color_variance", "texture_variance",
     "contour_count", "combined_raw"}

(* C18 as stated: the metadata of every observation carries the five raw    *)
(* values and combined_raw.                                                 *)
C18_MetadataAlwaysComplete ==
    \A i \in 1..Len(data) : RawKeys \subseteq DOMAIN data[i].metadata

(* C18 as amended: the metadata of a well-formed frame carries exactly the  *)
(* five raw values and combined_raw, with the values measured; that of a    *)
(* malformed frame carries the error field alone.                           *)
C18_MetadataCompleteUnlessDegraded ==
    [][(pc = "score" /\ pc' = "upload")
         => LET f == image[1]
                md == data'[1].metadata
            IN IF f.ok
               THEN /\ DOMAIN md = RawKeys
                    /\ md.motion_ratio = f.motion_pixels
                    /\ md.edge_ratio = f.edge_pixels
                    /\ md.color_variance = f.color_variance
                    /\ md.texture_variance = f.laplacian_var
                    /\ md.contour_count = f.contour_count
               ELSE DOMAIN md = {"error"}]_vars

C18_Witness ==
    /\ pc = "upload"
    /\ DOMAIN data[1].metadata = RawKeys
    /\ data[1].score = ScoreMax

(* C19: main exits with 1 when initialization fails; in run-once mode with  *)
(* 0 exactly when the cycle succeeded; with 0 when the continuous loop was  *)
(* stopped by an interrupt; and with 1 when the loop ended on an error.     *)
C19_ExitCodes ==
    exited =>
        /\ ~init_ok => exit_code = 1
        /\ (init_ok /\ once)
             => ((exit_code = 0)
                   <=> (cycle_state = "returned" /\ last_cycle = "ok"))
        /\ (~once /\ stop_cause = "interrupt") => exit_code = 0
        /\ (~once /\ stop_cause = "error") => exit_code = 1

(* C20: the monitors own pairwise different evaluator objects, one made at  *)
(* each construction with nothing absorbed, and no step changes the         *)
(* evaluator state of two monitors.                                         *)
C20_NoSharedEvaluator ==
    /\ [](\A m1, m2 \in DOMAIN monitors :
            /\ monitors[m1] \in DOMAIN evaluators
            /\ (m1 # m2 => monitors[m1] # monitors[m2]))
    /\ [][/\ Len(monitors') > Len(monitors)
             => /\ Len(evaluators') = Len(evaluators) + 1
                /\ evaluators'[monitors'[Len(monitors')]] = 0
                /\ \A m \in DOMAIN monitors :
                     evaluators'[monitors[m]] = evaluators[monitors[m]]
          /\ Len(monitors') = Len(monitors)
             => \A m1, m2 \in DOMAIN monitors :
                  (/\ evaluators'[monitors[m1]] # evaluators[monitors[m1]]
                   /\ evaluators'[monitors[m2]] # evaluators[monitors[m2]])
                     => m1 = m2]_vars

C20_Witness ==
    /\ Len(monitors) >= 2
    /\ evaluators[monitors[1]] = 0
    /\ evaluators[monitors[2]] = MaxBg
    /\ data # <<>>

(* C21: the steps of a cycle are ordered and cycles do not overlap: scoring *)
(* starts only from a capture that returned a frame, the upload only from a *)
(* scoring that returned an observation, the post only from the upload      *)
(* step, and a capture starts only when no cycle is running and nothing of  *)
(* an earlier cycle (frame, observation, request) is pending.               *)
C21_CyclesOrdered ==
    [][/\ (pc' = "score" /\ pc # "score")
            => (pc = "capture" /\ cycle_state = "running" /\ Len(image') = 1)
       /\ (pc' = "upload" /\ pc # "upload")
            => (pc = "score" /\ cycle_state = "running" /\ Len(data') = 1
                  /\ image' = <<>>)
       /\ (pc' = "posting" /\ pc # "posting")
            => (pc = "upload" /\ cycle_state = "running")
       /\ (pc' = "capture" /\ pc # "capture")
            => /\ cycle_state \in {"none", "returned"}
               /\ pc \in {"dispatch", "loop"}
               /\ image = <<>>
               /\ data = <<>>
               /\ request = <<>>
       /\ (cycle_state' = "running" /\ cycle_state # "running")
            => pc' = "capture"]_vars

C21_Witness ==
    /\ ~once
    /\ cycles >= 2
    /\ pc = "score"
    /\ last_cycle = "ok"
    /\ uploads >= 1
    /\ Len(response) = 0

(* C22: a capture step whose read fails (the device is gone, or the step    *)
(* yields no frame to score) ends the cycle as failed: no                   *)
(* scoring is called, the background model is as before, no observation     *)
(* exists, no request is sent, and in the continuous loop the step goes on  *)
(* to the sleep with the loop still running.                                *)
C22_ReadFailureAbortsCycle ==
    [][(/\ pc = "capture" /\ pc' # "capture" /\ cycle_state' # "aborted"
        /\ (~device_ok \/ cap # "open" \/ pc' # "score"))
         => /\ cycle_state' = "returned"
            /\ last_cycle' = "failed"
            /\ scorings' = scorings
            /\ evaluators' = evaluators
            /\ data' = <<>>
            /\ uploads' = uploads
            /\ request' = <<>>
            /\ response' = <<>>
            /\ pc' = IF once THEN "main_finally" ELSE "sleep"
            /\ ~once => (running' /\ stop_cause' = "none")]_vars

C22_Witness ==
    /\ ~once
    /\ pc = "upload"
    /\ cycles >= 2
    /\ scorings = 1
    /\ uploads = 0
    /\ last_cycle = "failed"
    /\ device_ok

(* C23: whenever the device was opened, initialization succeeded, whatever  *)
(* became of the resolution and frame-rate settings.                        *)
C23_ConfigFailureNonFatal ==
    (pc # "start" /\ cap \in {"open", "released"}) => init_ok

(* C24: an observation whose five raw signals are all zero has combined     *)
(* value 0 and the minimum score, 1.                                        *)
C24_AllZeroIsMinimum ==
    \A i \in 1..Len(data) :
        LET md == data[i].metadata
        IN (/\ RawKeys \subseteq DOMAIN md
            /\ md.motion_ratio = 0
            /\ md.edge_ratio = 0
            /\ md.color_variance = 0
            /\ md.texture_variance = 0
            /\ md.contour_count = 0)
             => /\ md.combined_raw = 0
                /\ data[i].score = ScoreMin
                /\ data[i].score = 1

C24_Witness ==
    /\ pc = "upload"
    /\ Len(data) = 1
    /\ RawKeys \subseteq DOMAIN data[1].metadata
    /\ \A k \in RawKeys : data[1].metadata[k] = 0
    /\ data[1].score = 1

(* C25: once cleanup has run, the running flag is false and the device is   *)
(* not open for good; no step of the cycle is under way; and a later        *)
(* run_once fails at its capture attempt, with no scoring, no change of the *)
(* background model and no upload request.                                  *)
C25_StoppedIsTerminal ==
    /\ [](cleanups >= 1
            => /\ ~running
               /\ cap # "open"
               /\ pc \in {"main_finally", "done"}
               /\ image = <<>> /\ data = <<>> /\ request = <<>>)
    /\ [][cleanups >= 1
            => /\ scorings' = scorings
               /\ uploads' = uploads
               /\ evaluators' = evaluators
               /\ request' = <<>>
               /\ (pc = "done" /\ pc' = "done")
                    => /\ cycle_state' = "returned"
                       /\ last_cycle' = "failed"
                       /\ response' = <<>>]_vars

C25_Witness ==
    /\ once
    /\ pc = "done"
    /\ cleanups = 1
    /\ cap = "released"
    /\ cycles = 2
    /\ captures = 2
    /\ scorings = 1
    /\ uploads = 1
    /\ last_cycle = "failed"
    /\ response = <<>>

RawSignals ==
    {"motion_ratio", "edge_ratio", "color_variance", "texture_variance",
     "contour_count"}

(* Where min(value / cap, 1.0) stops growing. *)
CapOf(k) ==
    CASE k = "color_variance" -> VarianceCap
      [] k = "texture_variance" -> TextureCap
      [] k = "contour_count" -> ContourCap

(* C26: of two observations, the second from a frame no lower in any of the *)
(* five signals, the second score is no lower; and when they differ only in *)
(* a colour variance, texture variance or contour count that is at or above *)
(* its cap in both, the scores are equal.                                   *)
C26_ScoreMonotone ==
    Len(data) = 2 =>
        LET a == data[1].metadata
            b == data[2].metadata
        IN (RawSignals \subseteq DOMAIN a /\ RawSignals \subseteq DOMAIN b)
             => /\ (\A k \in RawSignals : a[k] <= b[k])
                     => data[1].score <= data[2].score
                /\ \A k \in {"color_variance", "texture_variance",
                             "contour_count"} :
                     (/\ a[k] >= CapOf(k)
                      /\ b[k] >= a[k]
                      /\ \A j \in RawSignals \ {k} : a[j] = b[j])
                       => data[1].score = data[2].score

C26_Witness ==
    /\ Len(data) = 2
    /\ data[1].metadata.color_variance = VarianceCap
    /\ data[2].metadata.color_variance = 2 * VarianceCap
    /\ data[1].metadata.motion_ratio = Pixels
    /\ data[1].score = data[2].score
    /\ data[1].score > ScoreMin

====
